---- MODULE Spec2Model ----
(***************************************************************************)
(* Booking modal of the car-wash marketplace front-end (BookingModal).     *)
(*                                                                         *)
(* The model covers the step state machine, the availability deriver, the  *)
(* pricing calculator and the submission sequence of the modal, together   *)
(* with the collaborators it calls (signup, createAppointment, getUser,    *)
(* getVendorOffers), which are modelled by their outcomes.                 *)
(*                                                                         *)
(* Conventions                                                             *)
(*  - JavaScript strings that the code parses or formats (times, hours)    *)
(*    are tuples of one-character strings: "09:30" is                      *)
(*    <<"0","9",":","3","0">>; the empty string is << >>.                   *)
(*  - Free-text inputs whose content the code never inspects (names,       *)
(*    phone, plate, email) are opaque strings, "" being the empty one.     *)
(*  - A password is modelled by its length (the code only tests it for     *)
(*    emptiness and hands it to signup).                                   *)
(*  - Money is exact: a price is a whole number of cents, and derived      *)
(*    amounts are whole numbers of 1/100 cent (floating-point rounding is  *)
(*    not modelled).                                                       *)
(***************************************************************************)
EXTENDS Integers, Sequences, FiniteSets, TLC

(***************************************************************************)
(* Values                                                                  *)
(***************************************************************************)
None == "none"            \* null / undefined
NaN == 0 - 1              \* the JavaScript number NaN (every real value here is >= 0)

Steps == {"date", "time", "details", "signup", "confirm"}

Lit_closed == <<"c", "l", "o", "s", "e", "d">>
Lit_0000 == <<"0", "0", ":", "0", "0">>
Lit_2359 == <<"2", "3", ":", "5", "9">>
Lit_0900 == <<"0", "9", ":", "0", "0">>
Lit_0930 == <<"0", "9", ":", "3", "0">>
Lit_1000 == <<"1", "0", ":", "0", "0">>
Lit_1700 == <<"1", "7", ":", "0", "0">>

DigitChars == <<"0", "1", "2", "3", "4", "5", "6", "7", "8", "9">>

IsDigit(c) == \E i \in 1..10 : DigitChars[i] = c

DigitVal(c) == (CHOOSE i \in 1..10 : DigitChars[i] = c) - 1

(***************************************************************************)
(* JavaScript primitives used by the availability deriver                  *)
(***************************************************************************)
\* Number.prototype.toString for a non-negative integer
RECURSIVE NumToString(_)
NumToString(n) ==
    IF n < 10 THEN <<DigitChars[n + 1]>>
    ELSE NumToString(n \div 10) \o <<DigitChars[(n % 10) + 1]>>

\* String.prototype.padStart(2, '0')
PadStart2(s) == IF Len(s) >= 2 THEN s ELSE IF Len(s) = 1 THEN <<"0">> \o s ELSE <<"0", "0">>

\* index of the first ':' in s, 0 when there is none
ColonAt(s) ==
    IF \E i \in 1..Len(s) : s[i] = ":"
    THEN CHOOSE i \in 1..Len(s) : s[i] = ":" /\ \A j \in 1..(i - 1) : s[j] # ":"
    ELSE 0

\* const [a, b = '0'] = s.split(':')  (only the first two pieces are used)
SplitFirst(s) == IF ColonAt(s) = 0 THEN s ELSE SubSeq(s, 1, ColonAt(s) - 1)

SplitRest(s) == IF ColonAt(s) = 0 THEN << >> ELSE SubSeq(s, ColonAt(s) + 1, Len(s))

SplitSecond(s) == IF ColonAt(s) = 0 THEN <<"0">> ELSE SplitFirst(SplitRest(s))

\* length of the longest prefix of s made of digits
RECURSIVE DigitPrefixLen(_)
DigitPrefixLen(s) ==
    IF s = << >> \/ ~IsDigit(Head(s)) THEN 0 ELSE 1 + DigitPrefixLen(Tail(s))

RECURSIVE DigitsValue(_)
DigitsValue(s) ==
    IF s = << >> THEN 0 ELSE DigitsValue(SubSeq(s, 1, Len(s) - 1)) * 10 + DigitVal(s[Len(s)])

\* parseInt on an unsigned string: the value of its digit prefix, NaN when there is none
ParseInt(s) ==
    IF DigitPrefixLen(s) = 0 THEN NaN ELSE DigitsValue(SubSeq(s, 1, DigitPrefixLen(s)))

\* a * 60 + b in JavaScript arithmetic (NaN is contagious)
TimesSixtyPlus(a, b) == IF a = NaN \/ b = NaN THEN NaN ELSE a * 60 + b

\* a < b in JavaScript (every comparison with NaN is false)
JsLess(a, b) == a # NaN /\ b # NaN /\ a < b

(***************************************************************************)
(* Availability deriver                                                    *)
(***************************************************************************)
\* A calendar day is [dayName, isPast]: format(date, 'EEEE').toLowerCase() and
\* isBefore(day, today).  A vendor is its operatingHours table, a function from
\* the weekday names it has an entry for to [open, close].
NoDate == [dayName |-> "", isPast |-> FALSE]      \* selectedDate = null

DefaultHours == [open |-> Lit_0900, close |-> Lit_1700]

\* getDayOperatingHours whose fallback is a closed day
getDayOperatingHours_NoDefault(date, vend) ==
    IF date.dayName \in DOMAIN vend THEN vend[date.dayName]
    ELSE [open |-> Lit_closed, close |-> Lit_closed]

getDayOperatingHours(date, vend) ==
    IF date.dayName \in DOMAIN vend THEN vend[date.dayName] ELSE DefaultHours

\* `${hour.toString().padStart(2, '0')}:${minute.toString().padStart(2, '0')}`
FormatSlot(time) ==
    PadStart2(NumToString(time \div 60)) \o <<":">> \o PadStart2(NumToString(time % 60))

\* the loop with the close time included (time <= endTime)
RECURSIVE SlotLoop_Inclusive(_, _)
SlotLoop_Inclusive(time, endTime) ==
    IF time # NaN /\ endTime # NaN /\ time <= endTime
    THEN <<FormatSlot(time)>> \o SlotLoop_Inclusive(time + 30, endTime)
    ELSE << >>

\* for (let time = startTime; time < endTime; time += 30) times.push(...)
RECURSIVE SlotLoop(_, _)
SlotLoop(time, endTime) ==
    IF JsLess(time, endTime) THEN <<FormatSlot(time)>> \o SlotLoop(time + 30, endTime) ELSE << >>

\* the 24-hour grid with every entry on the hour
FullDayGrid_OnTheHour ==
    [k \in 1..48 |-> PadStart2(NumToString((k - 1) \div 2)) \o <<":", "0", "0">>]

\* Array.from({ length: 48 }, (_, i) => ...)
FullDayGrid ==
    [k \in 1..48 |->
        PadStart2(NumToString((k - 1) \div 2)) \o <<":">>
            \o (IF (k - 1) % 2 = 0 THEN <<"0", "0">> ELSE <<"3", "0">>)]

getAvailableTimes(date, vend) ==
    IF date = NoDate THEN << >>
    ELSE LET hours == getDayOperatingHours(date, vend)
             startTime == TimesSixtyPlus(ParseInt(SplitFirst(hours.open)),
                                         ParseInt(SplitSecond(hours.open)))
             endTime == TimesSixtyPlus(ParseInt(SplitFirst(hours.close)),
                                       ParseInt(SplitSecond(hours.close)))
         IN  IF hours.open = Lit_closed /\ hours.close = Lit_closed THEN << >>
             ELSE IF hours.open = Lit_0000 /\ hours.close = Lit_2359 THEN FullDayGrid
             ELSE SlotLoop(startTime, endTime)

\* hasAvailableTimes that marks every day available
hasAvailableTimes_Always(date, vend) == TRUE

hasAvailableTimes(date, vend) ==
    LET hours == getDayOperatingHours(date, vend)
    IN  ~(hours.open = Lit_closed /\ hours.close = Lit_closed)

(***************************************************************************)
(* Pricing calculator                                                      *)
(***************************************************************************)
\* An offer is [serviceId, active, startDate, endDate, discountPercentage];
\* dates are instants on an integer time line.
CoinValueCents == 50      \* one coin is worth 0.5 currency units
Hundred == 100            \* the divisor of a percentage

\* index of the first offer matching the predicate of offers.find, 0 when none
FirstOfferAt(offerList, serviceId, instant) ==
    LET hit(i) == /\ offerList[i].serviceId = serviceId
                  /\ offerList[i].startDate <= instant
                  /\ offerList[i].endDate >= instant
    IN  IF \E i \in 1..Len(offerList) : hit(i)
        THEN CHOOSE i \in 1..Len(offerList) : hit(i) /\ \A j \in 1..(i - 1) : ~hit(j)
        ELSE 0

\* activeOffer?.discountPercentage || 0
getServiceDiscount(offerList, serviceId, instant) ==
    IF FirstOfferAt(offerList, serviceId, instant) = 0 THEN 0
    ELSE offerList[FirstOfferAt(offerList, serviceId, instant)].discountPercentage

\* discount > 0 ? service.price * (1 - discount / 100) : service.price
\* price in cents, result in 1/100 cent
getDiscountedPrice(offerList, svc, instant) ==
    LET discount == getServiceDiscount(offerList, svc.id, instant)
    IN  IF discount > 0 THEN svc.price * (Hundred - discount) ELSE svc.price * Hundred

\* userData?.wallet.coins || 0
NoUser == [exists |-> FALSE, coins |-> 0]      \* userData = null

WalletCoinsOrZero(user) == IF ~user.exists THEN 0 ELSE user.coins

Min(a, b) == IF a <= b THEN a ELSE b

Max(a, b) == IF a >= b THEN a ELSE b

\* the load that keeps every offer, active or not
FilterActive_KeepAll(offerList) == offerList

\* offers.filter(o => o.active)
RECURSIVE FilterActive(_)
FilterActive(offerList) ==
    IF offerList = << >> THEN << >>
    ELSE (IF Head(offerList).active THEN <<Head(offerList)>> ELSE << >>)
             \o FilterActive(Tail(offerList))

\* totalPrice with the redemption not capped by the price
TotalPrice_Uncapped(coinsOn, user, offerList, svc, instant) ==
    IF coinsOn
    THEN getDiscountedPrice(offerList, svc, instant)
             - WalletCoinsOrZero(user) * (CoinValueCents * Hundred)
    ELSE getDiscountedPrice(offerList, svc, instant)

\* totalPrice of appointmentData, in 1/100 cent
TotalPrice(coinsOn, user, offerList, svc, instant) ==
    IF coinsOn
    THEN Max(0, getDiscountedPrice(offerList, svc, instant)
                  - Min(WalletCoinsOrZero(user),
                        getDiscountedPrice(offerList, svc, instant)
                            \div (CoinValueCents * Hundred))
                    * (CoinValueCents * Hundred))
    ELSE getDiscountedPrice(offerList, svc, instant)

\* the coins to debit without the cap by the wallet
CoinsToDebit_NoWalletCap(coinsOn, user, svc) ==
    IF coinsOn THEN (svc.price * Hundred) \div (CoinValueCents * Hundred) ELSE 0

\* the second argument of createAppointment: the coins to debit
CoinsToDebit(coinsOn, user, svc) ==
    IF coinsOn
    THEN Min(WalletCoinsOrZero(user), (svc.price * Hundred) \div (CoinValueCents * Hundred))
    ELSE 0

\* useCoins > userData.wallet.coins: the boolean is converted to 0 or 1
BoolToNumber(b) == IF b THEN 1 ELSE 0

(***************************************************************************)
(* The world of one modal instance                                         *)
(***************************************************************************)
PasswordMinLength == 6    \* minLength={6} of the password input

SignupBonusCoins == 10    \* "Liity jaseneksi ja saa 10 kolikkoa!"

ServiceId == "s1"

\* the lengths of the passwords the user may type
PasswordLengths == {0, PasswordMinLength - 1, PasswordMinLength}

\* what the user may type into the inputs of the details step; only the email
\* is also cleared again
TextInputs == {"abc"}

EmailInputs == {"", "a@x", "b@x"}

\* e.target.value.toUpperCase()
toUpperCase(v) == IF v = "abc" THEN "ABC" ELSE v

DetailFields == {"firstName", "lastName", "email", "phone", "licensePlate"}

Monday == [dayName |-> "monday", isPast |-> FALSE]
Tuesday == [dayName |-> "tuesday", isPast |-> FALSE]
Yesterday == [dayName |-> "monday", isPast |-> TRUE]

\* the days the calendar shows (month navigation is not modelled: every day
\* is taken to be a day of the displayed month)
CalendarDays == {Monday, Tuesday, Yesterday}

\* the vendor of the main specification: one slot on Monday, closed on Tuesday
MainVendor ==
    [d \in {"monday", "tuesday"} |->
        IF d = "monday" THEN [open |-> Lit_0900, close |-> Lit_0930]
        ELSE [open |-> Lit_closed, close |-> Lit_closed]]

Offer(sid, act, from, to, pct) ==
    [serviceId |-> sid, active |-> act, startDate |-> from, endDate |-> to,
     discountPercentage |-> pct]

\* the pricing situations the modal is opened in: the price of the service in
\* cents, the vendor's offers as stored, the coins of the signed-in customer,
\* the value of new Date() while the modal is open, and whether the modal is
\* also opened without a session in that situation
Scenarios ==
    { [price |-> 10000, wallet |-> 50, now |-> 5, guest |-> TRUE,
       offers |-> << Offer(ServiceId, FALSE, 0, 9, 50), Offer("s2", TRUE, 0, 9, 30),
                     Offer(ServiceId, TRUE, 0, 4, 40), Offer(ServiceId, TRUE, 5, 9, 20) >>],
      [price |-> 200, wallet |-> 100, now |-> 5, guest |-> FALSE,
       offers |-> << Offer(ServiceId, TRUE, 0, 5, 50) >>],
      [price |-> 100, wallet |-> 0, now |-> 5, guest |-> FALSE, offers |-> << >>] }

ExistingUid == "u1"
ExistingEmail == "a@x"

\* the uid signup gives the account it creates for an email
NewUid(email) == "uid:" \o email

IdleSnap ==
    [currentUser |-> None, useCoins |-> FALSE, userData |-> NoUser, offers |-> << >>,
     selectedDate |-> NoDate, selectedTime |-> << >>,
     customerDetails |-> [firstName |-> "", lastName |-> "", email |-> "", phone |-> "",
                          licensePlate |-> "", password |-> 0]]

NoCall ==
    [data |-> [customerId |-> None, serviceId |-> "", date |-> [day |-> NoDate, hours |-> NaN, minutes |-> NaN],
               status |-> "", totalPrice |-> 0,
               customerDetails |-> [f \in DetailFields |-> ""]],
     coins |-> 0,
     closure |-> [useCoins |-> FALSE, userData |-> NoUser, offers |-> << >>, currentUser |-> None],
     outcome |-> "none"]

ErrSelectDateTime == "Valitse paiva ja aika"
ErrFillDetails == "Tayta kaikki asiakastiedot"
ErrEmailInUse == "Sahkoposti on jo kaytossa. Kirjaudu sisaan jatkaaksesi."
ErrLoginFailed == "Kirjautuminen epaonnistui"
ErrNotEnoughCoins == "Ei tarpeeksi kolikoita"
ErrBookingFailed == "Varauksen luonti epaonnistui. Yrita uudelleen."

VARIABLES
    \* props and collaborators
    service,            \* [id, price]
    vendor,             \* operatingHours
    now,                \* new Date()
    serverOffers,       \* what getVendorOffers returns
    serverUsers,        \* uid -> user document, what getUser returns
    accounts,           \* registered email -> uid
    \* AuthContext
    currentUser,        \* uid or None
    authEvent,          \* uid of a sign-in not yet delivered to the context
    \* component state (useState)
    currentStep, selectedDate, selectedTime, useCoins, loading, error,
    showLoginPrompt, bookingComplete, userData, offers, customerDetails,
    \* asynchronous work
    mounted,            \* the modal instance exists
    fetch,              \* uid loadUserData is waiting for, or None
    sub,                \* the handleSubmit run in flight: [pc, calls, snap]
    timers,             \* pending post-success timers
    \* what the outside world has seen
    lastRun,            \* how the last finished handleSubmit run ended, and the
                        \* number of createAppointment calls it made
    lastCall,           \* the most recent call of createAppointment
    created,            \* calls of createAppointment that succeeded
    navigations,        \* targets of navigate(), in order
    onCloseCalls,       \* calls of onClose
    pendingBooking,     \* sessionStorage 'pendingBooking': << >> or <<details>>
    last                \* the last handler or event that ran

envVars == <<service, vendor, now, serverOffers, serverUsers, accounts>>
authVars == <<currentUser, authEvent>>
flowVars == <<currentStep, selectedDate, selectedTime, customerDetails>>
submitVars == <<useCoins, loading, error, showLoginPrompt, bookingComplete>>
loadVars == <<userData, offers>>
asyncVars == <<mounted, fetch, sub, timers>>
logVars == <<lastRun, lastCall, created, navigations, onCloseCalls, pendingBooking>>

vars == <<envVars, authVars, flowVars, submitVars, loadVars, asyncVars, logVars, last>>

\* getUser(uid)
getUser(uid) == IF uid \in DOMAIN serverUsers THEN serverUsers[uid] ELSE NoUser

EmailOf(uid) == IF uid = ExistingUid THEN ExistingEmail ELSE ""

Init ==
    /\ \E sc \in Scenarios :
        /\ currentUser \in (IF sc.guest THEN {None, ExistingUid} ELSE {ExistingUid})
        /\ service = [id |-> ServiceId, price |-> sc.price]
        /\ serverOffers = sc.offers
        /\ now = sc.now
        /\ serverUsers = [u \in {ExistingUid} |-> [exists |-> TRUE, coins |-> sc.wallet]]
    /\ vendor = MainVendor
    /\ accounts = [e \in {ExistingEmail} |-> ExistingUid]
    /\ authEvent = None
    /\ currentStep = "date"
    /\ selectedDate = NoDate
    /\ selectedTime = << >>
    /\ useCoins = FALSE
    /\ loading = FALSE
    /\ error = None
    /\ showLoginPrompt = FALSE
    /\ bookingComplete = FALSE
    /\ userData = NoUser
    /\ offers = << >>
    /\ customerDetails = [firstName |-> "", lastName |-> "",
                          email |-> IF currentUser = None THEN "" ELSE EmailOf(currentUser),
                          phone |-> "", licensePlate |-> "", password |-> 0]
    /\ mounted = TRUE
    /\ fetch = currentUser
    /\ sub = [pc |-> "idle", calls |-> 0, snap |-> IdleSnap]
    /\ timers = 0
    /\ lastRun = [result |-> "none", calls |-> 0]
    /\ lastCall = NoCall
    /\ created = 0
    /\ navigations = << >>
    /\ onCloseCalls = 0
    /\ pendingBooking = << >>
    /\ last = "mount"

(***************************************************************************)
(* Booking flow controller                                                 *)
(***************************************************************************)
Filled(v) == v # ""

\* the five mandatory customer fields are all non-empty
DetailsComplete(cd) ==
    /\ Filled(cd.firstName) /\ Filled(cd.lastName) /\ Filled(cd.email)
    /\ Filled(cd.phone) /\ Filled(cd.licensePlate)

\* nextStep without the branch on the session
nextStep_NoSignupBranch(step, date, time, cd, user) ==
    IF step = "date" /\ date # NoDate THEN "time"
    ELSE IF step = "time" /\ time # << >> THEN "details"
    ELSE IF step = "details" /\ DetailsComplete(cd) THEN "confirm"
    ELSE IF step = "signup" /\ cd.password > 0 THEN "confirm"
    ELSE step

\* nextStep without the guard of the date step
nextStep_NoDateGuard(step, date, time, cd, user) ==
    IF step = "date" THEN "time"
    ELSE IF step = "time" /\ time # << >> THEN "details"
    ELSE IF step = "details" /\ DetailsComplete(cd)
         THEN (IF user = None THEN "signup" ELSE "confirm")
    ELSE IF step = "signup" /\ cd.password > 0 THEN "confirm"
    ELSE step

\* nextStep without the guard of the details step
nextStep_NoDetailsGuard(step, date, time, cd, user) ==
    IF step = "date" /\ date # NoDate THEN "time"
    ELSE IF step = "time" /\ time # << >> THEN "details"
    ELSE IF step = "details" THEN (IF user = None THEN "signup" ELSE "confirm")
    ELSE IF step = "signup" /\ cd.password > 0 THEN "confirm"
    ELSE step

\* the step nextStep sets, the current step when no branch applies
nextStep(step, date, time, cd, user) ==
    IF step = "date" /\ date # NoDate THEN "time"
    ELSE IF step = "time" /\ time # << >> THEN "details"
    ELSE IF step = "details" /\ DetailsComplete(cd)
         THEN (IF user = None THEN "signup" ELSE "confirm")
    ELSE IF step = "signup" /\ cd.password > 0 THEN "confirm"
    ELSE step

\* prevStep without the branch on the session
prevStep_NoSessionBranch(step, user) ==
    IF step = "time" THEN "date"
    ELSE IF step = "details" THEN "time"
    ELSE IF step = "signup" THEN "details"
    ELSE IF step = "confirm" THEN "details"
    ELSE step

\* the step prevStep sets
prevStep(step, user) ==
    IF step = "time" THEN "date"
    ELSE IF step = "details" THEN "time"
    ELSE IF step = "signup" THEN "details"
    ELSE IF step = "confirm" THEN (IF user # None THEN "details" ELSE "signup")
    ELSE step

\* the disabled attribute without its clause for the signup step
NextDisabled_NoPasswordClause ==
    \/ selectedDate = NoDate
    \/ (currentStep = "time" /\ selectedTime = << >>)
    \/ (currentStep = "details" /\ ~DetailsComplete(customerDetails))

\* the disabled attribute of the "Seuraava" control
NextDisabled ==
    \/ selectedDate = NoDate
    \/ (currentStep = "time" /\ selectedTime = << >>)
    \/ (currentStep = "details" /\ ~DetailsComplete(customerDetails))
    \/ (currentStep = "signup" /\ customerDetails.password = 0)

\* the step content is rendered (not replaced by the success view)
StepShown(step) == mounted /\ ~bookingComplete /\ currentStep = step

\* the footer without its !bookingComplete condition
FooterShown_AfterSuccess == mounted

\* the footer is rendered
FooterShown == mounted /\ ~bookingComplete

Did(op) == last' = op

\* onClick={() => !isPast && setSelectedDate(day)}, disabled={isPast || !isCurrentMonth}
SelectDate(day) ==
    /\ StepShown("date")
    /\ ~day.isPast
    /\ selectedDate' = day
    /\ Did("setSelectedDate")
    /\ UNCHANGED <<envVars, authVars, currentStep, selectedTime, customerDetails,
                   submitVars, loadVars, asyncVars, logVars>>

\* a list of slots that also depends on the time already selected
SlotsShown_Stateful ==
    LET times == IF selectedTime # << >> THEN << >>
                 ELSE getAvailableTimes(selectedDate, vendor)
    IN  { times[i] : i \in 1..Len(times) }

\* the slots renderTimeStep lists: getAvailableTimes().map(...)
SlotsShown ==
    LET times == getAvailableTimes(selectedDate, vendor)
    IN  { times[i] : i \in 1..Len(times) }

\* onClick={() => setSelectedTime(time)} on one of the slots rendered
SelectTime(slot) ==
    /\ StepShown("time")
    /\ slot \in SlotsShown
    /\ selectedTime' = slot
    /\ Did("setSelectedTime")
    /\ UNCHANGED <<envVars, authVars, currentStep, selectedDate, customerDetails,
                   submitVars, loadVars, asyncVars, logVars>>

\* "Valitse toinen paiva", rendered when the day has no slots
ChooseOtherDay ==
    /\ StepShown("time")
    /\ getAvailableTimes(selectedDate, vendor) = << >>
    /\ currentStep' = "date"
    /\ Did("chooseOtherDay")
    /\ UNCHANGED <<envVars, authVars, selectedDate, selectedTime, customerDetails,
                   submitVars, loadVars, asyncVars, logVars>>

\* onChange of the inputs of the details step
SetDetail(field, value) ==
    /\ StepShown("details")
    /\ customerDetails' =
           [customerDetails EXCEPT ![field] =
               IF field = "licensePlate" THEN toUpperCase(value) ELSE value]
    /\ Did("setCustomerDetails")
    /\ UNCHANGED <<envVars, authVars, currentStep, selectedDate, selectedTime,
                   submitVars, loadVars, asyncVars, logVars>>

\* onChange of the password input of the signup step
SetPassword(len) ==
    /\ StepShown("signup")
    /\ customerDetails' = [customerDetails EXCEPT !.password = len]
    /\ Did("setPassword")
    /\ UNCHANGED <<envVars, authVars, currentStep, selectedDate, selectedTime,
                   submitVars, loadVars, asyncVars, logVars>>

\* nextStep, for every state in which its control is rendered
NextStep ==
    /\ FooterShown
    /\ currentStep # "confirm"
    /\ currentStep' = nextStep(currentStep, selectedDate, selectedTime, customerDetails,
                               currentUser)
    /\ Did("nextStep")
    /\ UNCHANGED <<envVars, authVars, selectedDate, selectedTime, customerDetails,
                   submitVars, loadVars, asyncVars, logVars>>

\* prevStep, for every state in which its control is rendered
PrevStep ==
    /\ FooterShown
    /\ currentStep # "date"
    /\ currentStep' = prevStep(currentStep, currentUser)
    /\ Did("prevStep")
    /\ UNCHANGED <<envVars, authVars, selectedDate, selectedTime, customerDetails,
                   submitVars, loadVars, asyncVars, logVars>>

\* the coin toggle rendered for every customer on the confirm step
ToggleCoins_AlwaysRendered ==
    /\ StepShown("confirm")
    /\ selectedDate # NoDate /\ selectedTime # << >>
    /\ useCoins' = ~useCoins
    /\ last' = "setUseCoins"
    /\ UNCHANGED <<envVars, authVars, flowVars, loading, error, showLoginPrompt,
                   bookingComplete, loadVars, asyncVars, logVars>>

\* onClick={() => setUseCoins(!useCoins)}, rendered on the confirm step for a
\* signed-in customer whose loaded wallet holds coins
ToggleCoins ==
    /\ StepShown("confirm")
    /\ selectedDate # NoDate /\ selectedTime # << >>
    /\ currentUser # None /\ userData.exists /\ userData.coins > 0
    /\ useCoins' = ~useCoins
    /\ Did("setUseCoins")
    /\ UNCHANGED <<envVars, authVars, flowVars, loading, error, showLoginPrompt,
                   bookingComplete, loadVars, asyncVars, logVars>>

(***************************************************************************)
(* Submission sequencer                                                    *)
(***************************************************************************)
\* a state update of a component that may have been torn down
Ui(old, new) == IF mounted THEN new ELSE old

\* the values handleSubmit closes over when the control is clicked
Closure ==
    [currentUser |-> currentUser, useCoins |-> useCoins, userData |-> userData,
     offers |-> offers, selectedDate |-> selectedDate, selectedTime |-> selectedTime,
     customerDetails |-> customerDetails]

\* const [hours, minutes] = selectedTime.split(':'): minutes is undefined
\* (parsed as NaN) when there is no ':'
SplitSecondRaw(s) == IF ColonAt(s) = 0 THEN << >> ELSE SplitFirst(SplitRest(s))

\* dateTime: new Date(selectedDate) with setHours(parseInt(hours), parseInt(minutes))
DateTime(date, time) ==
    [day |-> date, hours |-> ParseInt(SplitFirst(time)), minutes |-> ParseInt(SplitSecondRaw(time))]

\* appointmentData with the customer taken from the session alone
appointmentData_SessionOnly(snap, userId) ==
    [customerId |-> snap.currentUser,
     serviceId |-> service.id,
     date |-> DateTime(snap.selectedDate, snap.selectedTime),
     status |-> "confirmed",
     totalPrice |-> TotalPrice(snap.useCoins, snap.userData, snap.offers, service, now),
     customerDetails |-> [f \in DetailFields |-> snap.customerDetails[f]]]

appointmentData(snap, userId) ==
    [customerId |-> userId,
     serviceId |-> service.id,
     date |-> DateTime(snap.selectedDate, snap.selectedTime),
     status |-> "confirmed",
     totalPrice |-> TotalPrice(snap.useCoins, snap.userData, snap.offers, service, now),
     customerDetails |-> [f \in DetailFields |-> snap.customerDetails[f]]]

\* the coin validation rejects the submission
CoinCheckFails(snap) ==
    snap.useCoins /\ (~snap.userData.exists \/ BoolToNumber(snap.useCoins) > snap.userData.coins)

\* one call of createAppointment, as the persistence layer sees it, with the
\* values the run closed over and the call's outcome
AppointmentCall(snap, userId) ==
    [data |-> appointmentData(snap, userId),
     coins |-> CoinsToDebit(snap.useCoins, snap.userData, service),
     closure |-> [useCoins |-> snap.useCoins, userData |-> snap.userData, offers |-> snap.offers,
                  currentUser |-> snap.currentUser],
     outcome |-> "pending"]

Idle == [pc |-> "idle", calls |-> 0, snap |-> IdleSnap]

\* a run of handleSubmit that ends before any await
EndsAtOnce(result, message) ==
    /\ error' = Ui(error, message)
    /\ loading' = Ui(loading, FALSE)
    /\ sub' = Idle
    /\ lastRun' = [result |-> result, calls |-> 0]
    /\ UNCHANGED lastCall

\* the same without setLoading(true)
AfterIdentity_NoLoading(snap, userId) ==
    IF userId = None THEN EndsAtOnce("noIdentity", ErrLoginFailed)
    ELSE IF CoinCheckFails(snap) THEN EndsAtOnce("notEnoughCoins", ErrNotEnoughCoins)
    ELSE /\ error' = Ui(error, None)
         /\ loading' = loading
         /\ sub' = [pc |-> "create", calls |-> 1, snap |-> snap]
         /\ lastCall' = AppointmentCall(snap, userId)
         /\ UNCHANGED lastRun

\* handleSubmit from "if (!userId)" to "await createAppointment(...)"
AfterIdentity(snap, userId) ==
    IF userId = None THEN EndsAtOnce("noIdentity", ErrLoginFailed)
    ELSE IF CoinCheckFails(snap) THEN EndsAtOnce("notEnoughCoins", ErrNotEnoughCoins)
    ELSE /\ error' = Ui(error, None)
         /\ loading' = Ui(loading, TRUE)
         /\ sub' = [pc |-> "create", calls |-> 1, snap |-> snap]
         /\ lastCall' = AppointmentCall(snap, userId)
         /\ UNCHANGED lastRun

\* a click on "Vahvista varaus": handleSubmit up to its first await
HandleSubmit ==
    /\ FooterShown
    /\ currentStep = "confirm"
    /\ ~loading
    /\ Did("handleSubmit")
    /\ IF selectedDate = NoDate \/ selectedTime = << >>
       THEN /\ error' = ErrSelectDateTime
            /\ lastRun' = [result |-> "invalid", calls |-> 0]
            /\ UNCHANGED <<loading, sub, lastCall>>
       ELSE IF ~DetailsComplete(customerDetails)
       THEN /\ error' = ErrFillDetails
            /\ lastRun' = [result |-> "invalid", calls |-> 0]
            /\ UNCHANGED <<loading, sub, lastCall>>
       ELSE IF currentUser = None /\ customerDetails.password > 0
       THEN /\ error' = None
            /\ loading' = TRUE
            /\ sub' = [pc |-> "signup", calls |-> 0, snap |-> Closure]
            /\ UNCHANGED <<lastRun, lastCall>>
       ELSE AfterIdentity(Closure, currentUser)
    /\ UNCHANGED <<envVars, authVars, flowVars, useCoins, showLoginPrompt, bookingComplete,
                   loadVars, mounted, fetch, timers, created, navigations, onCloseCalls,
                   pendingBooking>>

\* signup resolves: the account exists from now on, and handleSubmit goes on
SignupSucceeds ==
    /\ sub.pc = "signup"
    /\ sub.snap.customerDetails.email \notin DOMAIN accounts
    /\ LET email == sub.snap.customerDetails.email
           uid == NewUid(email)
       IN  /\ accounts' = [e \in DOMAIN accounts \cup {email} |->
                              IF e = email THEN uid ELSE accounts[e]]
           /\ serverUsers' = [u \in DOMAIN serverUsers \cup {uid} |->
                                 IF u = uid THEN [exists |-> TRUE, coins |-> SignupBonusCoins]
                                 ELSE serverUsers[u]]
           /\ authEvent' = uid
           /\ AfterIdentity(sub.snap, uid)
    /\ Did("signupSucceeds")
    /\ UNCHANGED <<service, vendor, now, serverOffers, currentUser, flowVars, useCoins,
                   showLoginPrompt, bookingComplete, loadVars, mounted, fetch, timers,
                   created, navigations, onCloseCalls, pendingBooking>>

\* the email-in-use branch without setShowLoginPrompt(true)
SignupEmailInUse_NoPrompt ==
    /\ sub.pc = "signup"
    /\ sub.snap.customerDetails.email \in DOMAIN accounts
    /\ error' = Ui(error, ErrEmailInUse)
    /\ loading' = Ui(loading, FALSE)
    /\ lastRun' = [result |-> "emailInUse", calls |-> sub.calls]
    /\ sub' = [pc |-> "idle", calls |-> 0, snap |-> IdleSnap]
    /\ last' = "signupEmailInUse"
    /\ UNCHANGED <<envVars, authVars, flowVars, useCoins, showLoginPrompt, bookingComplete,
                   loadVars, mounted, fetch, timers, lastCall, created, navigations,
                   onCloseCalls, pendingBooking>>

\* signup rejects with auth/email-already-in-use
SignupEmailInUse ==
    /\ sub.pc = "signup"
    /\ sub.snap.customerDetails.email \in DOMAIN accounts
    /\ showLoginPrompt' = Ui(showLoginPrompt, TRUE)
    /\ error' = Ui(error, ErrEmailInUse)
    /\ loading' = Ui(loading, FALSE)
    /\ lastRun' = [result |-> "emailInUse", calls |-> sub.calls]
    /\ sub' = Idle
    /\ Did("signupEmailInUse")
    /\ UNCHANGED <<envVars, authVars, flowVars, useCoins, bookingComplete, loadVars,
                   mounted, fetch, timers, lastCall, created, navigations, onCloseCalls,
                   pendingBooking>>

\* the catch block of handleSubmit, then its finally block
GenericFailure ==
    /\ error' = Ui(error, ErrBookingFailed)
    /\ loading' = Ui(loading, FALSE)
    /\ lastRun' = [result |-> "failed", calls |-> sub.calls]
    /\ sub' = Idle

\* signup rejects for any other reason
SignupFails ==
    /\ sub.pc = "signup"
    /\ GenericFailure
    /\ Did("signupFails")
    /\ UNCHANGED <<envVars, authVars, flowVars, useCoins, showLoginPrompt, bookingComplete,
                   loadVars, mounted, fetch, timers, lastCall, created, navigations,
                   onCloseCalls, pendingBooking>>

\* the success path without setTimeout
CreateAppointmentSucceeds_NoTimer ==
    /\ sub.pc = "create"
    /\ lastCall' = [lastCall EXCEPT !.outcome = "ok"]
    /\ created' = created + 1
    /\ bookingComplete' = Ui(bookingComplete, TRUE)
    /\ loading' = Ui(loading, FALSE)
    /\ lastRun' = [result |-> "success", calls |-> sub.calls]
    /\ sub' = Idle
    /\ last' = "createAppointmentSucceeds"
    /\ UNCHANGED <<envVars, authVars, flowVars, useCoins, error, showLoginPrompt, loadVars,
                   mounted, fetch, timers, navigations, onCloseCalls, pendingBooking>>

\* createAppointment resolves
CreateAppointmentSucceeds ==
    /\ sub.pc = "create"
    /\ lastCall' = [lastCall EXCEPT !.outcome = "ok"]
    /\ created' = created + 1
    /\ bookingComplete' = Ui(bookingComplete, TRUE)
    /\ timers' = timers + 1
    /\ loading' = Ui(loading, FALSE)
    /\ lastRun' = [result |-> "success", calls |-> sub.calls]
    /\ sub' = Idle
    /\ Did("createAppointmentSucceeds")
    /\ UNCHANGED <<envVars, authVars, flowVars, useCoins, error, showLoginPrompt, loadVars,
                   mounted, fetch, navigations, onCloseCalls, pendingBooking>>

\* createAppointment rejects
CreateAppointmentFails ==
    /\ sub.pc = "create"
    /\ lastCall' = [lastCall EXCEPT !.outcome = "failed"]
    /\ GenericFailure
    /\ Did("createAppointmentFails")
    /\ UNCHANGED <<envVars, authVars, flowVars, useCoins, showLoginPrompt, bookingComplete,
                   loadVars, mounted, fetch, timers, created, navigations, onCloseCalls,
                   pendingBooking>>

\* the post-success timer: navigate('/'); onClose()
TimerFires ==
    /\ timers > 0
    /\ timers' = timers - 1
    /\ navigations' = Append(navigations, "/")
    /\ onCloseCalls' = onCloseCalls + 1
    /\ mounted' = FALSE
    /\ Did("timerFires")
    /\ UNCHANGED <<envVars, authVars, flowVars, submitVars, loadVars, fetch, sub, lastRun,
                   lastCall, created, pendingBooking>>

\* the close control of the header: onClose, after which the parent unmounts the modal
CloseModal ==
    /\ mounted
    /\ onCloseCalls' = onCloseCalls + 1
    /\ mounted' = FALSE
    /\ Did("onClose")
    /\ UNCHANGED <<envVars, authVars, flowVars, submitVars, loadVars, fetch, sub, timers,
                   lastRun, lastCall, created, navigations, pendingBooking>>

\* handleLogin: store the booking and leave for the login page
HandleLogin ==
    /\ mounted
    /\ error # None
    /\ showLoginPrompt
    /\ pendingBooking' = <<[selectedDate |-> selectedDate, selectedTime |-> selectedTime,
                            customerDetails |-> customerDetails]>>
    /\ navigations' = Append(navigations, "/login")
    /\ mounted' = FALSE
    /\ Did("handleLogin")
    /\ UNCHANGED <<envVars, authVars, flowVars, submitVars, loadVars, fetch, sub, timers,
                   lastRun, lastCall, created, onCloseCalls>>

(***************************************************************************)
(* Session and data loading                                                *)
(***************************************************************************)
\* the AuthContext delivers the account signup created; the effect on
\* [currentUser, vendorId] runs again
AuthStateChanged ==
    /\ authEvent # None
    /\ currentUser' = authEvent
    /\ authEvent' = None
    /\ fetch' = Ui(fetch, authEvent)
    /\ Did("authStateChanged")
    /\ UNCHANGED <<envVars, flowVars, submitVars, loadVars, mounted, sub, timers, logVars>>

\* loadUserData after Promise.all resolved
LoadUserDataDone ==
    /\ fetch # None
    /\ userData' = Ui(userData, getUser(fetch))
    /\ offers' = Ui(offers, FilterActive(serverOffers))
    /\ fetch' = None
    /\ Did("loadUserData")
    /\ UNCHANGED <<envVars, authVars, flowVars, submitVars, mounted, sub, timers, logVars>>

\* one of the two fetches rejects: nothing is set
LoadUserDataFails ==
    /\ fetch # None
    /\ fetch' = None
    /\ Did("loadUserDataFails")
    /\ UNCHANGED <<envVars, authVars, flowVars, submitVars, loadVars, mounted, sub, timers,
                   logVars>>

Next ==
    \/ \E day \in CalendarDays : SelectDate(day)
    \/ \E slot \in {Lit_0900, Lit_0930, Lit_1000} : SelectTime(slot)
    \/ ChooseOtherDay
    \/ \E field \in DetailFields \ {"email"} : \E value \in TextInputs :
           SetDetail(field, value)
    \/ \E value \in EmailInputs : SetDetail("email", value)
    \/ \E len \in PasswordLengths : SetPassword(len)
    \/ NextStep
    \/ PrevStep
    \/ ToggleCoins
    \/ HandleSubmit
    \/ SignupSucceeds
    \/ SignupEmailInUse
    \/ SignupFails
    \/ CreateAppointmentSucceeds
    \/ CreateAppointmentFails
    \/ TimerFires
    \/ CloseModal
    \/ HandleLogin
    \/ AuthStateChanged
    \/ LoadUserDataDone
    \/ LoadUserDataFails

Spec == Init /\ [][Next]_vars

\* a timer set by setTimeout fires once its delay is over: the event loop
\* keeps running whatever becomes of the component
FairSpec == Spec /\ WF_vars(TimerFires)

(***************************************************************************)
(* The date and time steps over a range of operating hours                 *)
(***************************************************************************)
Lit_0915 == <<"0", "9", ":", "1", "5">>
Lit_1015 == <<"1", "0", ":", "1", "5">>
Lit_9 == <<"9">>

\* the texts a vendor's table may hold as an opening or a closing time
HourTexts ==
    {Lit_closed, Lit_0000, Lit_0900, Lit_0915, Lit_1000, Lit_1015, Lit_1700, Lit_2359, Lit_9}

\* vendors whose table has an entry for Monday alone, with every pair of texts
AvailVendors ==
    { [d \in {"monday"} |-> [open |-> oc[1], close |-> oc[2]]] : oc \in HourTexts \X HourTexts }

\* the modal opened by a signed-in customer on one of these vendors
InitAvail ==
    /\ vendor \in AvailVendors
    /\ currentUser = ExistingUid
    /\ \E sc \in Scenarios :
        /\ sc.offers = << >>
        /\ service = [id |-> ServiceId, price |-> sc.price]
        /\ serverOffers = sc.offers
        /\ now = sc.now
        /\ serverUsers = [u \in {ExistingUid} |-> [exists |-> TRUE, coins |-> sc.wallet]]
    /\ accounts = [e \in {ExistingEmail} |-> ExistingUid]
    /\ authEvent = None
    /\ currentStep = "date"
    /\ selectedDate = NoDate
    /\ selectedTime = << >>
    /\ useCoins = FALSE
    /\ loading = FALSE
    /\ error = None
    /\ showLoginPrompt = FALSE
    /\ bookingComplete = FALSE
    /\ userData = NoUser
    /\ offers = << >>
    /\ customerDetails = [firstName |-> "", lastName |-> "", email |-> EmailOf(currentUser),
                          phone |-> "", licensePlate |-> "", password |-> 0]
    /\ mounted = TRUE
    /\ fetch = currentUser
    /\ sub = Idle
    /\ timers = 0
    /\ lastRun = [result |-> "none", calls |-> 0]
    /\ lastCall = NoCall
    /\ created = 0
    /\ navigations = << >>
    /\ onCloseCalls = 0
    /\ pendingBooking = << >>
    /\ last = "mount"

\* the handlers of the date and time steps
NextAvail ==
    \/ \E day \in CalendarDays : SelectDate(day)
    \/ \E slot \in SlotsShown : SelectTime(slot)
    \/ ChooseOtherDay
    \/ NextStep
    \/ PrevStep

SpecAvail == InitAvail /\ [][NextAvail]_vars

(***************************************************************************)
(* The loading of offers over a range of offer lists                       *)
(***************************************************************************)
\* the offers a vendor may have stored: for the service or another one, active
\* or not, with a window that starts at, before or after instant 5 and ends
\* at, before or after it
StoredOffers ==
    { Offer(sid, act, from, to, pct) :
          sid \in {ServiceId, "s2"}, act \in BOOLEAN, from \in {0, 5, 6}, to \in {4, 5, 9},
          pct \in {20, 50} }

\* the lists getVendorOffers may return
OfferLists ==
    { << >> } \cup { <<o>> : o \in StoredOffers }
              \cup { <<o1, o2>> : o1 \in StoredOffers, o2 \in StoredOffers }

\* the modal opened by a signed-in customer on a vendor with one of these lists
InitOffers ==
    /\ serverOffers \in OfferLists
    /\ currentUser = ExistingUid
    /\ \E sc \in Scenarios :
        /\ sc.offers = << >>
        /\ service = [id |-> ServiceId, price |-> sc.price]
        /\ now = sc.now
        /\ serverUsers = [u \in {ExistingUid} |-> [exists |-> TRUE, coins |-> sc.wallet]]
    /\ vendor = MainVendor
    /\ accounts = [e \in {ExistingEmail} |-> ExistingUid]
    /\ authEvent = None
    /\ currentStep = "date"
    /\ selectedDate = NoDate
    /\ selectedTime = << >>
    /\ useCoins = FALSE
    /\ loading = FALSE
    /\ error = None
    /\ showLoginPrompt = FALSE
    /\ bookingComplete = FALSE
    /\ userData = NoUser
    /\ offers = << >>
    /\ customerDetails = [firstName |-> "", lastName |-> "", email |-> EmailOf(currentUser),
                          phone |-> "", licensePlate |-> "", password |-> 0]
    /\ mounted = TRUE
    /\ fetch = currentUser
    /\ sub = Idle
    /\ timers = 0
    /\ lastRun = [result |-> "none", calls |-> 0]
    /\ lastCall = NoCall
    /\ created = 0
    /\ navigations = << >>
    /\ onCloseCalls = 0
    /\ pendingBooking = << >>
    /\ last = "mount"

\* the effect that loads the customer and the offers, and the close control
NextOffers ==
    \/ LoadUserDataDone
    \/ LoadUserDataFails
    \/ CloseModal

SpecOffers == InitOffers /\ [][NextOffers]_vars

(***************************************************************************)
(* Properties                                                              *)
(***************************************************************************)
\* a call of createAppointment has been made
Called == lastCall.outcome # "none"

\* the coins of the wallet the run read (0 when none was loaded)
WalletRead == IF lastCall.closure.userData.exists THEN lastCall.closure.userData.coins ELSE 0

\* the discounted price the run charged from, in 1/100 cent
ChargedFrom == getDiscountedPrice(lastCall.closure.offers, service, now)

\* C1: from 'details' with the five mandatory fields filled, nextStep goes to
\* 'signup' without a session and to 'confirm' with one; without a session it
\* never goes from 'details' straight to 'confirm'.
C1_DetailsBranchesOnSession ==
    [][(last' = "nextStep" /\ currentStep = "details")
         => /\ DetailsComplete(customerDetails)
                => currentStep' = (IF currentUser = None THEN "signup" ELSE "confirm")
            /\ currentUser = None => currentStep' # "confirm"]_vars

C1_Witness == last = "nextStep" /\ currentStep = "signup" /\ currentUser = None

\* C2: createAppointment is called only with a resolved customer: without a
\* session the customer is the uid of the account signup created for the
\* submitted email (the account exists when the call is made, and no call is
\* made while signup is pending); with a session it is the session's uid; a run
\* that resolves no identity makes no call.
C2_ResolvedIdentity ==
    /\ Called =>
         /\ lastCall.data.customerId # None
         /\ lastCall.closure.currentUser # None
                => lastCall.data.customerId = lastCall.closure.currentUser
         /\ lastCall.closure.currentUser = None
                => /\ lastCall.data.customerDetails.email \in DOMAIN accounts
                   /\ accounts[lastCall.data.customerDetails.email] = lastCall.data.customerId
                   /\ lastCall.data.customerId # ExistingUid
    /\ sub.pc = "signup" => sub.calls = 0
    /\ lastRun.result = "noIdentity" => lastRun.calls = 0

C2_Witness ==
    last = "signupSucceeds" /\ lastCall.outcome = "pending" /\ lastCall.closure.currentUser = None

\* C3: when signup fails with 'email already in use', the (mounted) modal shows
\* the error with the login action, its loading flag is cleared, the run has
\* made no createAppointment call, and the step, the selected date and time and
\* the customer details are unchanged.
C3_EmailInUseIsRecoverable ==
    [][(last' = "signupEmailInUse" /\ mounted)
         => /\ showLoginPrompt' /\ error' = ErrEmailInUse /\ ~loading'
            /\ lastRun'.result = "emailInUse" /\ lastRun'.calls = 0
            /\ lastCall' = lastCall /\ created' = created /\ sub'.pc = "idle"
            /\ currentStep' = currentStep /\ selectedDate' = selectedDate
            /\ selectedTime' = selectedTime /\ customerDetails' = customerDetails]_vars

C3_Witness ==
    /\ last = "signupEmailInUse" /\ mounted /\ showLoginPrompt /\ error = ErrEmailInUse
    /\ lastCall.outcome = "none"

\* C4: a run of handleSubmit that reaches success has made exactly one
\* createAppointment call, at most one createAppointment call ever succeeds in
\* one modal instance, and after a success no run is in flight or can start.
C4_CreatedOnce ==
    /\ created <= 1
    /\ lastRun.result = "success" => lastRun.calls = 1 /\ created = 1
    /\ created = 1 => sub.pc = "idle" /\ lastRun.result = "success"
    /\ (created = 1 /\ mounted) => bookingComplete

C4_Witness == created = 1 /\ lastRun.result = "success" /\ bookingComplete

\* C5: the totalPrice of every appointment is
\* max(0, dp - min(walletCoins, floor(dp / 0.5)) * 0.5) with redemption and dp
\* without, dp being the discounted price; it is never negative; price 100 with
\* a 20% offer and 50 coins gives 55, discounted price 1 with 100 coins gives 0.
C5_TotalPrice ==
    Called =>
        /\ lastCall.data.totalPrice >= 0
        /\ lastCall.closure.useCoins =>
               LET redeemed == IF WalletRead <= ChargedFrom \div 5000 THEN WalletRead
                               ELSE ChargedFrom \div 5000
                   rest == ChargedFrom - redeemed * 5000
               IN  lastCall.data.totalPrice = (IF rest < 0 THEN 0 ELSE rest)
        /\ ~lastCall.closure.useCoins => lastCall.data.totalPrice = ChargedFrom
        /\ (lastCall.closure.useCoins /\ ChargedFrom = 800000 /\ WalletRead = 50)
               => lastCall.data.totalPrice = 550000
        /\ (lastCall.closure.useCoins /\ ChargedFrom = 10000 /\ WalletRead = 100)
               => lastCall.data.totalPrice = 0

C5_Witness ==
    /\ Called /\ lastCall.closure.useCoins /\ service.price = 10000
    /\ ChargedFrom = 800000 /\ WalletRead = 50 /\ lastCall.data.totalPrice = 550000

\* C6: with redemption enabled, the coins passed to createAppointment are
\* min(walletCoins, floor(discountedPrice / 0.5)), the coins the charged total
\* was reduced by.
C6_CoinsFromDiscountedPrice ==
    (Called /\ lastCall.closure.useCoins)
        => lastCall.coins = Min(WalletRead, ChargedFrom \div 5000)

\* the discount of the vendor's offer that is active, targets the service and is
\* in its validity window now; 0 when there is none
OfferInForce(o) ==
    o.active /\ o.serviceId = service.id /\ o.startDate <= now /\ now <= o.endDate

DiscountInForce ==
    IF \E i \in 1..Len(serverOffers) : OfferInForce(serverOffers[i])
    THEN serverOffers[CHOOSE i \in 1..Len(serverOffers) :
                          /\ OfferInForce(serverOffers[i])
                          /\ \A j \in 1..(i - 1) : ~OfferInForce(serverOffers[j])].discountPercentage
    ELSE 0

\* C7: every appointment without redemption is priced
\* basePrice * (1 - d/100), d being the discount in force for the service.
C7_PricedFromDiscountInForce ==
    (Called /\ ~lastCall.closure.useCoins)
        => lastCall.data.totalPrice = service.price * (100 - DiscountInForce)

\* C8: the coins to debit are between 0 and the wallet balance the run read
\* (with redemption, the wallet of the customer of the appointment), and 0
\* without redemption; a run with redemption enabled and no loaded wallet is
\* rejected by the coin validation, and a rejected run makes no call.
C8_CoinsWithinWallet ==
    /\ Called =>
         /\ lastCall.coins >= 0
         /\ lastCall.coins <= WalletRead
         /\ ~lastCall.closure.useCoins => lastCall.coins = 0
         /\ lastCall.closure.useCoins
                => lastCall.closure.userData = getUser(lastCall.data.customerId)
    /\ CoinCheckFails([Closure EXCEPT !.useCoins = TRUE, !.userData = NoUser])
    /\ lastRun.result = "notEnoughCoins" => lastRun.calls = 0

C8_Witness ==
    Called /\ lastCall.closure.useCoins /\ lastCall.coins > 0 /\ lastCall.coins = WalletRead

\* C9: nextStep moves from 'signup' to 'confirm' only with a password of at
\* least 6 characters.
C9_PasswordMinLength ==
    [][(last' = "nextStep" /\ currentStep = "signup" /\ currentStep' = "confirm")
         => customerDetails.password >= PasswordMinLength]_vars

\* C10: nextStep moves from 'date' to 'time' only with a date selected and from
\* 'time' to 'details' only with a time selected; when the guard of the current
\* step fails, nextStep changes neither the step, the selections, the customer
\* details nor the error.
GuardFails ==
    \/ currentStep = "date" /\ selectedDate = NoDate
    \/ currentStep = "time" /\ selectedTime = << >>
    \/ currentStep = "details" /\ ~DetailsComplete(customerDetails)
    \/ currentStep = "signup" /\ customerDetails.password = 0

C10_GuardedAndSilent ==
    [][last' = "nextStep"
         => /\ (currentStep = "date" /\ currentStep' = "time") => selectedDate # NoDate
            /\ (currentStep = "time" /\ currentStep' = "details") => selectedTime # << >>
            /\ currentStep' # currentStep => ~GuardFails
            /\ GuardFails => /\ currentStep' = currentStep /\ selectedDate' = selectedDate
                             /\ selectedTime' = selectedTime
                             /\ customerDetails' = customerDetails /\ error' = error]_vars

C10_Witness == last = "nextStep" /\ currentStep = "date" /\ selectedDate = NoDate


\* the step before a step of the flow, by the session
StepBefore(step, user) ==
    CASE step = "confirm" -> (IF user = None THEN "signup" ELSE "details")
      [] step = "signup" -> "details"
      [] step = "details" -> "time"
      [] step = "time" -> "date"
      [] step = "date" -> "date"

\* C11: prevStep goes from 'confirm' to 'signup' without a session and to
\* 'details' with one, from 'signup' to 'details', from 'details' to 'time',
\* from 'time' to 'date', and from 'date' nowhere; it never changes the
\* selected date, the selected time or the customer details.
C11_PrevStepMirrors ==
    [][ /\ \A user \in {None, ExistingUid} : prevStep("date", user) = "date"
        /\ last' = "prevStep" =>
              /\ currentStep' = StepBefore(currentStep, currentUser)
              /\ selectedDate' = selectedDate
              /\ selectedTime' = selectedTime
              /\ customerDetails' = customerDetails ]_vars

C11_Witness ==
    /\ last = "prevStep" /\ currentStep = "signup" /\ currentUser = None
    /\ customerDetails.password > 0

\* C12: the signup step is shown only while there is no session.
C12_SignupOnlyWithoutSession == currentStep = "signup" => currentUser = None

\* C13: on the signup and confirm steps a date and a time are selected and
\* the five mandatory customer fields are non-empty, so no submission started
\* from the confirm control fails the validation of handleSubmit.
C13_PastDetailsMeansComplete ==
    /\ currentStep \in {"signup", "confirm"} =>
          /\ selectedDate # NoDate
          /\ selectedTime # << >>
          /\ \A f \in DetailFields : customerDetails[f] # ""
    /\ lastRun.result # "invalid"
    /\ error \notin {ErrSelectDateTime, ErrFillDetails}

C13_Witness ==
    /\ last = "handleSubmit" /\ currentStep = "confirm" /\ sub.pc # "idle"
    /\ \A f \in DetailFields : customerDetails[f] # ""

\* the text HH:MM of t minutes after midnight
HHMM(t) ==
    << DigitChars[((t \div 60) \div 10) + 1], DigitChars[((t \div 60) % 10) + 1], ":",
       DigitChars[((t % 60) \div 10) + 1], DigitChars[((t % 60) % 10) + 1] >>

\* s is a text of the shape HH:MM
IsHHMM(s) ==
    /\ Len(s) = 5
    /\ s[3] = ":"
    /\ \A i \in {1, 2, 4, 5} : IsDigit(s[i])

\* the minutes after midnight a text HH:MM stands for
MinutesOf(s) ==
    (DigitVal(s[1]) * 10 + DigitVal(s[2])) * 60 + DigitVal(s[4]) * 10 + DigitVal(s[5])

\* the times from, from + 30, ... that are before to
ExpectedSlots(from, to) ==
    [k \in 1..(IF to > from THEN (to - from + 29) \div 30 ELSE 0) |-> HHMM(from + 30 * (k - 1))]

\* the weekday of the day has this entry in the vendor's table
EntryIs(day, o, c) ==
    /\ day.dayName \in DOMAIN vendor
    /\ vendor[day.dayName] = [open |-> o, close |-> c]

\* C14: a day whose weekday entry is closed/closed has no slots and is
\* marked unavailable.
C14_ClosedDayHasNoSlots ==
    \A day \in CalendarDays :
        EntryIs(day, Lit_closed, Lit_closed) =>
            /\ getAvailableTimes(day, vendor) = << >>
            /\ ~hasAvailableTimes(day, vendor)

C14_Witness ==
    /\ last = "nextStep" /\ currentStep = "time" /\ selectedDate = Monday
    /\ EntryIs(Monday, Lit_closed, Lit_closed)

\* C15: a day whose weekday entry is 00:00/23:59 has exactly 48 slots, the
\* i-th (from 0) being the zero-padded HH:MM of 30*i minutes after midnight.
C15_FullDayHas48Slots ==
    \A day \in CalendarDays :
        EntryIs(day, Lit_0000, Lit_2359) =>
            LET times == getAvailableTimes(day, vendor)
            IN  /\ Len(times) = 48
                /\ \A i \in 0..47 : times[i + 1] = HHMM(30 * i)
                /\ times[1] = Lit_0000
                /\ times[48] = <<"2", "3", ":", "3", "0">>

C15_Witness ==
    /\ EntryIs(Monday, Lit_0000, Lit_2359) /\ selectedDate = Monday
    /\ last = "setSelectedTime" /\ selectedTime = <<"2", "3", ":", "3", "0">>

\* the entry of the day is made of two HH:MM texts and is not the 24-hour pair
OrdinaryHours(day) ==
    /\ day.dayName \in DOMAIN vendor
    /\ IsHHMM(vendor[day.dayName].open)
    /\ IsHHMM(vendor[day.dayName].close)
    /\ ~EntryIs(day, Lit_0000, Lit_2359)

\* C16: with ordinary HH:MM hours the slots are exactly open, open + 30, ...
\* before close: the close time is never a slot, a close time off the
\* 30-minute step cuts the last partial slot, and 09:00-17:00 gives the 16
\* slots 09:00 ... 16:30.
C16_SlotsBeforeClose ==
    \A day \in CalendarDays :
        LET times == getAvailableTimes(day, vendor)
        IN  /\ OrdinaryHours(day) =>
                  /\ times = ExpectedSlots(MinutesOf(vendor[day.dayName].open),
                                           MinutesOf(vendor[day.dayName].close))
                  /\ \A i \in 1..Len(times) : times[i] # vendor[day.dayName].close
            /\ EntryIs(day, Lit_0900, Lit_1700) =>
                  /\ Len(times) = 16
                  /\ times[1] = Lit_0900
                  /\ times[16] = <<"1", "6", ":", "3", "0">>
            /\ EntryIs(day, Lit_0900, Lit_1015) => times = <<Lit_0900, Lit_0930, Lit_1000>>

C16_Witness ==
    /\ EntryIs(Monday, Lit_0900, Lit_1015) /\ selectedDate = Monday
    /\ last = "setSelectedTime" /\ selectedTime = Lit_1000

\* C17: a day whose weekday has no entry in the vendor's table gets the
\* hours 09:00-17:00: it is marked available and its slots are 09:00 ... 16:30.
C17_DefaultHours ==
    \A day \in CalendarDays :
        day.dayName \notin DOMAIN vendor =>
            /\ getDayOperatingHours(day, vendor) = [open |-> Lit_0900, close |-> Lit_1700]
            /\ hasAvailableTimes(day, vendor)
            /\ LET times == getAvailableTimes(day, vendor)
               IN  /\ times = ExpectedSlots(9 * 60, 17 * 60)
                   /\ Len(times) = 16
                   /\ times[16] = <<"1", "6", ":", "3", "0">>

C17_Witness ==
    /\ "tuesday" \notin DOMAIN vendor /\ selectedDate = Tuesday
    /\ last = "setSelectedTime" /\ selectedTime = <<"1", "6", ":", "3", "0">>

\* the discount of the first offer of a list that is in force, 0 when none is
FirstInForce(list) ==
    IF \E i \in 1..Len(list) : OfferInForce(list[i])
    THEN list[CHOOSE i \in 1..Len(list) :
                  /\ OfferInForce(list[i])
                  /\ \A j \in 1..(i - 1) : ~OfferInForce(list[j])].discountPercentage
    ELSE 0

\* C18: the discount resolved from the loaded offers is the percentage of the
\* first offer that targets the service, is active and whose window contains
\* the current instant (ends included), and 0 when there is none; an inactive
\* offer or one outside its window never gives a discount.  The list is the
\* one the effect stored, which it does only while the modal is mounted.
C18_DiscountOfFirstOfferInForce ==
    LET discount == getServiceDiscount(offers, service.id, now)
    IN  /\ discount = FirstInForce(offers)
        /\ (last = "loadUserData" /\ mounted) => discount = FirstInForce(serverOffers)
        /\ discount > 0 =>
               \E i \in 1..Len(serverOffers) :
                   /\ OfferInForce(serverOffers[i])
                   /\ serverOffers[i].discountPercentage = discount

C18_Witness ==
    /\ last = "loadUserData" /\ mounted
    /\ serverOffers = << Offer(ServiceId, FALSE, 0, 9, 50), Offer(ServiceId, TRUE, 5, 5, 20) >>
    /\ getServiceDiscount(offers, service.id, now) = 20

\* a run of handleSubmit ends in its catch block on the mounted modal
FailsGenerically == mounted /\ last' \in {"signupFails", "createAppointmentFails"}

\* what the catch and finally blocks leave behind, the step apart
FailureLeavesRest ==
    /\ error' = ErrBookingFailed
    /\ ~bookingComplete'
    /\ selectedDate' = selectedDate
    /\ selectedTime' = selectedTime
    /\ customerDetails' = customerDetails
    /\ useCoins' = useCoins
    /\ timers' = timers /\ timers' = 0
    /\ created' = created
    /\ ~loading'

\* C19: when signup fails for a reason other than an email in use, or
\* createAppointment fails, the generic error is set, bookingComplete stays
\* false, the step is 'confirm', the date, time, details and coin toggle are
\* unchanged, no exit timer is scheduled, and loading is cleared so that the
\* submit control is enabled for a retry.
C19_FailureStaysOnConfirm ==
    [][ FailsGenerically =>
            /\ FailureLeavesRest
            /\ currentStep' = "confirm"
            /\ FooterShown' ]_vars

\* a run of handleSubmit is between its first await and its end
Pending == sub.pc # "idle"

\* C20: while a run of handleSubmit is pending the submit control is
\* disabled (loading is set on the mounted modal), and no click starts a run
\* while another one is pending.
C20_OneRunAtATime ==
    [][ /\ last' = "handleSubmit" => ~Pending
        /\ (mounted' /\ Pending') => loading' ]_vars

C20_Witness ==
    /\ last = "handleSubmit" /\ Pending /\ sub.pc = "create"
    /\ mounted /\ currentStep = "confirm" /\ loading

\* C21: while a submission is pending (loading is set) the close control
\* cannot call onClose.
C21_NoCloseWhilePending ==
    [][ last' = "onClose" => (~loading /\ ~Pending) ]_vars

\* C23: when the modal was torn down before the post-success timer fires,
\* the firing does nothing: no navigation and no further call of onClose.
C23_TimerDiscardedAfterClose ==
    [][ (last' = "timerFires" /\ ~mounted) =>
            (navigations' = navigations /\ onCloseCalls' = onCloseCalls) ]_vars

\* C22: when createAppointment succeeds the modal shows the success state
\* (bookingComplete set, no error) for good and exactly one exit timer is
\* scheduled; the timer's firing navigates to the home page and calls
\* onClose; with a fair timer every success is followed by that exit.
C22_SuccessThenExit ==
    /\ [][ last' = "createAppointmentSucceeds" =>
               /\ timers = 0 /\ timers' = 1
               /\ mounted => (bookingComplete' /\ error' = None) ]_vars
    /\ [][ bookingComplete => bookingComplete' ]_vars
    /\ [][ last' = "timerFires" =>
               /\ timers' = timers - 1
               /\ navigations' = Append(navigations, "/")
               /\ onCloseCalls' = onCloseCalls + 1 ]_vars
    /\ (created > 0 /\ timers > 0) ~> (last = "timerFires" /\ timers = 0)

C22_Witness ==
    /\ last = "timerFires" /\ created = 1 /\ bookingComplete
    /\ navigations = <<"/">> /\ onCloseCalls = 1 /\ timers = 0

\* C24: redemption is switched on only with a session and a loaded wallet
\* that holds coins, and no appointment is created with a coin debit for a
\* customer without a session or without coins.
C24_CoinsOnlyWithWallet ==
    /\ useCoins => (currentUser # None /\ userData.exists /\ userData.coins > 0)
    /\ (Called /\ lastCall.coins > 0) =>
           /\ lastCall.closure.useCoins
           /\ lastCall.closure.currentUser # None
           /\ lastCall.closure.userData.exists
           /\ lastCall.closure.userData.coins > 0

C24_Witness ==
    /\ useCoins /\ Called /\ lastCall.coins > 0 /\ lastCall.outcome = "ok"

\* the minutes a text of the table stands for: HH:MM, an hour alone, or none
MinutesOrNaN(s) ==
    IF IsHHMM(s) THEN MinutesOf(s)
    ELSE IF Len(s) = 1 /\ IsDigit(s[1]) THEN DigitVal(s[1]) * 60
    ELSE NaN

\* the slots as a table of the day and the hours alone
SlotsOf(day, table) ==
    IF day = NoDate THEN << >>
    ELSE LET entry == IF day.dayName \in DOMAIN table THEN table[day.dayName]
                      ELSE [open |-> Lit_0900, close |-> Lit_1700]
             from == MinutesOrNaN(entry.open)
             to == MinutesOrNaN(entry.close)
         IN  IF entry.open = Lit_closed /\ entry.close = Lit_closed THEN << >>
             ELSE IF entry.open = Lit_0000 /\ entry.close = Lit_2359
                  THEN [k \in 1..48 |-> HHMM(30 * (k - 1))]
             ELSE IF from = NaN \/ to = NaN THEN << >>
             ELSE ExpectedSlots(from, to)

\* C25: the slots derived for a day depend on the day and the vendor's hours
\* alone: in every state, whatever the step, the selected time, the customer
\* details, loading and error, they are the same table of the two inputs,
\* and so is the list the time step renders for the selected date.
C25_SlotsDependOnInputsAlone ==
    /\ \A day \in CalendarDays \cup {NoDate} :
           getAvailableTimes(day, vendor) = SlotsOf(day, vendor)
    /\ SlotsShown = { SlotsOf(selectedDate, vendor)[i] :
                          i \in 1..Len(SlotsOf(selectedDate, vendor)) }

C25_Witness ==
    /\ currentStep = "confirm" /\ loading /\ selectedDate = Monday /\ selectedTime = Lit_0900
    /\ customerDetails.email # "" /\ getAvailableTimes(selectedDate, vendor) = <<Lit_0900>>

\* C26: on every step but 'confirm' the 'next' control is enabled exactly
\* when nextStep would change the step, so an enabled click is never ignored
\* and a click that fails a guard never comes from an enabled control.
C26_DisabledIffGuardFails ==
    (FooterShown /\ currentStep # "confirm") =>
        (~NextDisabled <=>
            nextStep(currentStep, selectedDate, selectedTime, customerDetails, currentUser)
                # currentStep)

C26_Witness ==
    /\ last = "nextStep" /\ FooterShown /\ currentStep = "signup"
    /\ customerDetails.password = 0 /\ NextDisabled

\* C27: the time of day of every appointment created is one of the slots
\* derived for the day of the appointment.
C27_BookedTimeIsASlot ==
    Called =>
        LET booked == lastCall.data.date
            times == getAvailableTimes(booked.day, vendor)
        IN  /\ booked.hours # NaN /\ booked.minutes # NaN
            /\ \E i \in 1..Len(times) : times[i] = HHMM(booked.hours * 60 + booked.minutes)

CreatedEmails == DOMAIN accounts \ {ExistingEmail}

\* C29: a submission for an email whose account an earlier submission of the
\* modal created does not call signup again: it calls createAppointment with
\* the identity of that account.
C29_RetryReusesIdentity ==
    [][ (last' = "handleSubmit" /\ customerDetails.email \in CreatedEmails) =>
            /\ sub'.pc = "create"
            /\ lastCall'.data.customerId = accounts[customerDetails.email] ]_vars

\* C30: the login action is on display only while the most recent failure
\* of a submission is the email-already-registered conflict.
C30_LoginPromptOnlyForEmailInUse ==
    showLoginPrompt => lastRun.result = "emailInUse"

====
